---- MODULE Spec2Model ----
(***************************************************************************)
(* Model of the Universal arcade drivers' inter-CPU latch bridge, raster  *)
(* interrupt bridge (docastle.cpp) and PAL16R6 protection (mrdo.cpp).     *)
(***************************************************************************)
EXTENDS Integers, Sequences, FiniteSets, TLC

VARIABLES
    m_buffer0,       \* docastle_state::m_buffer0[9]: written by CPU B, read by CPU A
    m_buffer1,       \* docastle_state::m_buffer1[9]: written by CPU A, read by CPU B
    m_prev_ma6,      \* docastle_state::m_prev_ma6
    cpu0_suspended,  \* m_cpu[0] is suspended on its trigger
    cpu1_suspended,  \* m_cpu[1] is suspended on a trigger
    spin_arg,        \* argument m_cpu[0] was suspended with (0 when running)
    spin_elapsed,    \* time units since m_cpu[0] was suspended (0 when running)
    cpu1_nmi,        \* an NMI pulse is latched in m_cpu[1] and not yet taken
    cpu1_irq0,       \* state of m_cpu[1]'s IRQ0 input line
    last_op,         \* the bus operation or callback performed last, with its result
    wake_cause,      \* how m_cpu[0] left its last suspension
    ops,             \* number of operations performed so far
    pcA,             \* position of CPU A in its handshake program
    pcB,             \* position of CPU B in its NMI service routine
    a_msg,           \* message CPU A is sending and how much of it is written
    b_msg,           \* reply CPU B is sending and how much of it is written
    b_seen,          \* numbers of the CPU A messages CPU B has read bytes of
    samples,         \* MA6 bits sampled at horizontal-sync pulses since reset
    fired,           \* indices (from 0) of the samples at which IRQ0 was raised
    irq0_raised,     \* number of times m_cpu[1]'s IRQ0 line was asserted
    board,           \* mrdo: the machine variant built (class and configuration)
    running,         \* mrdo: machine_reset has run since construction
    m_pal_u001,      \* mrdo_state::m_pal_u001
    z80_hl,          \* mrdo: register HL of the main CPU
    rom,             \* mrdo: contents of the "maincpu" region
    unmap_value,     \* mrdo: value the program space returns for unmapped reads
    m_clocked,       \* mrdo: the byte protection_w was last called with since reset
    prev_read,       \* mrdo: the protection reads made since the last clock write
    m_fieldram,      \* mrdo_state::m_fieldram[2]
    m_colorram,      \* mrdo_state::m_colorram[2]
    tile_dirty,      \* mrdo: tiles of m_tilemap[2] marked dirty
    m_spriteram,     \* mrdo_state::m_spriteram
    tilemap_scrollx, \* mrdo: horizontal scroll of m_tilemap[0]
    tilemap_scrolly, \* mrdo: vertical scroll of m_tilemap[0]
    m_flipscreen,    \* mrdo_state::m_flipscreen
    tilemap_flip,    \* mrdo: flip attributes set for all tilemaps
    maincpu_irq0,    \* mrdo: state of the main CPU's IRQ0 input line
    m_adpcm_pos,     \* idsoccer_state::m_adpcm_pos
    m_adpcm_idle,    \* idsoccer_state::m_adpcm_idle
    m_adpcm_data,    \* idsoccer_state::m_adpcm_data
    m_adpcm_status,  \* idsoccer_state::m_adpcm_status
    msm_reset,       \* idsoccer: level of the MSM5205's reset input
    msm_data,        \* idsoccer: nibble last written to the MSM5205 (-1: none)
    msm_count,       \* idsoccer: nibbles written to the MSM5205 since playback was started
    adpcm_fetch,     \* idsoccer: position of the last fetch from the sample region (-1: none)
    adpcm_start,     \* idsoccer: position playback was last started at (-1: not started)
    adpcm_calls,     \* idsoccer: calls of adpcm_int since the last start or reset
    m_scroll_x,      \* bankp_state::m_scroll_x
    m_priority,      \* bankp_state::m_priority
    m_color_hi,      \* bankp_state::m_color_hi
    m_display_on,    \* bankp_state::m_display_on
    m_nmi_mask,      \* bankp_state::m_nmi_mask
    bankp_flip,      \* bankp: screen flip set by flip_screen_set
    bankp_all_dirty, \* bankp: all tilemaps were marked dirty
    bankp_vblank,    \* bankp: the screen's vblank state
    bankp_nmi,       \* bankp: an NMI is latched on the main CPU
    nmi_pulses,      \* bankp: NMI pulses given to the main CPU
    vblank_calls,    \* bankp: calls of vblank_interrupt
    bankp_ctrl,      \* bankp: data of the most recent video_control_w
    mrdo_vblank,     \* mrdo: the screen's vblank state
    mrdo_vblanks,    \* mrdo: calls of vblank_w
    irq_acked        \* mrdo: the CPU acknowledged IRQ0 since the last vblank edge

vars == <<m_buffer0, m_buffer1, m_prev_ma6, cpu0_suspended, cpu1_suspended,
          spin_arg, spin_elapsed, cpu1_nmi, cpu1_irq0, last_op, wake_cause, ops,
          pcA, pcB, a_msg, b_msg, b_seen, samples, fired, irq0_raised, board, running,
          m_pal_u001, z80_hl, rom, unmap_value, m_clocked, prev_read,
          m_fieldram, m_colorram, tile_dirty, m_spriteram, tilemap_scrollx,
          tilemap_scrolly, m_flipscreen, tilemap_flip, maincpu_irq0,
          m_adpcm_pos, m_adpcm_idle, m_adpcm_data, m_adpcm_status, msm_reset,
          msm_data, msm_count, adpcm_fetch, adpcm_start, adpcm_calls,
          m_scroll_x, m_priority, m_color_hi, m_display_on, m_nmi_mask,
          bankp_flip, bankp_all_dirty, bankp_vblank, bankp_nmi, nmi_pulses,
          vblank_calls, bankp_ctrl, mrdo_vblank, mrdo_vblanks, irq_acked>>

sched_vars == <<cpu0_suspended, cpu1_suspended, spin_arg, spin_elapsed,
                wake_cause>>
irq_vars == <<cpu1_irq0, irq0_raised>>
machine_vars == <<m_buffer0, m_buffer1, m_prev_ma6, cpu0_suspended,
                  cpu1_suspended, spin_arg, spin_elapsed, cpu1_nmi, cpu1_irq0,
                  irq0_raised, wake_cause>>
tvram_vars == <<m_fieldram, m_colorram, tile_dirty>>
pal_vars == <<m_pal_u001, m_clocked, prev_read>>
video_vars == <<m_spriteram, tilemap_scrollx, tilemap_scrolly, m_flipscreen,
                tilemap_flip, maincpu_irq0>>
screen_vars == <<mrdo_vblank, mrdo_vblanks, irq_acked>>
mrdo_vars == <<board, running, m_pal_u001, z80_hl, rom, unmap_value, m_clocked,
               prev_read, tvram_vars, video_vars, screen_vars>>
adpcm_vars == <<m_adpcm_pos, m_adpcm_idle, m_adpcm_data, m_adpcm_status,
                msm_reset, msm_data, msm_count, adpcm_fetch, adpcm_start,
                adpcm_calls>>
bankp_vars == <<m_scroll_x, m_priority, m_color_hi, m_display_on, m_nmi_mask,
                bankp_flip, bankp_all_dirty, bankp_vblank, bankp_nmi,
                nmi_pulses, vblank_calls, bankp_ctrl>>
program_vars == <<pcA, pcB, a_msg, b_msg, b_seen>>
raster_vars  == <<samples, fired>>

-----------------------------------------------------------------------------
(* Program constants and bounds *)

LatchSize == 9
SpinTimeout == 500
AdpcmBytes == 65536
AdpcmBlock == 512
MaxCalls == 1026
MaxVblanks == 4
MaxOps == 3
MaxMsgs == 1
MaxSamples == 6

Offsets == 0 .. (LatchSize - 1)
LatchData == {0, 165}
MAValues == {63, 64, 191}
TickSteps == {200}
ClockSample == {0, 50, 54, 107, 111, 161, 165, 201, 205, 255}
RomAddrs == {0, 65535}
MaxReads == 2
TvData == {0, 50, 161}
RamOffsets == {0}
VideoData == {0, 161}
AdpcmData == {127, 255}
ControlData == {0, 16, 47, 63}
ScrollData == {0, 77}
RomImages == { [a \in RomAddrs |-> IF a = 0 THEN 126 ELSE 0],
              [a \in RomAddrs |-> IF a = 0 THEN 255 ELSE 126] }

BIT(x, n) == (x \div (2 ^ n)) % 2

Min(a, b) == IF a < b THEN a ELSE b

Op(name, offset, data) == [op |-> name, offset |-> offset, data |-> data]

ZeroBuffer == [k \in Offsets |-> 0]

\* the two banks of a video RAM, zero-filled
ZeroRam == [w \in {0, 1} |-> [o \in RamOffsets |-> 0]]

-----------------------------------------------------------------------------
(* Scheduling primitives of the host.  spin_until_trigger suspends the    *)
(* calling CPU until it is triggered or until the bounded wait given by   *)
(* its argument has elapsed, whichever comes first; trigger resumes the   *)
(* CPU that spins on the same argument.                                    *)

spin_until_trigger(arg) ==
    /\ cpu0_suspended' = TRUE
    /\ cpu1_suspended' = cpu1_suspended
    /\ spin_arg' = arg
    /\ spin_elapsed' = 0
    /\ wake_cause' = "none"

trigger(arg) ==
    IF cpu0_suspended /\ spin_arg = arg
    THEN /\ cpu0_suspended' = FALSE
         /\ cpu1_suspended' = cpu1_suspended
         /\ spin_arg' = 0
         /\ spin_elapsed' = 0
         /\ wake_cause' = "trigger"
    ELSE UNCHANGED sched_vars

\* the scheduler's timeline advances by dt, never past the pending wake event
advance_time(dt) ==
    LET step == Min(dt, spin_arg - spin_elapsed) IN
    /\ cpu0_suspended
    /\ IF spin_elapsed + step >= spin_arg
       THEN /\ cpu0_suspended' = FALSE
            /\ spin_arg' = 0
            /\ spin_elapsed' = 0
            /\ wake_cause' = "timeout"
       ELSE /\ spin_elapsed' = spin_elapsed + step
            /\ UNCHANGED <<cpu0_suspended, spin_arg, wake_cause>>
    /\ UNCHANGED cpu1_suspended
    /\ UNCHANGED <<m_buffer0, m_buffer1, m_prev_ma6, cpu1_nmi, irq_vars>>

\* m_cpu[1] takes the interrupt held on its IRQ0 line, which clears the line
irq0_acknowledge ==
    /\ cpu1_irq0 = "HOLD_LINE"
    /\ cpu1_irq0' = "CLEAR_LINE"
    /\ UNCHANGED <<m_buffer0, m_buffer1, m_prev_ma6, cpu1_nmi, irq0_raised,
                   sched_vars>>

-----------------------------------------------------------------------------
(* Read/write handlers of the latch bridge *)

cpu1_latch_r(offset) == m_buffer0[offset]

\* the read handlers assign no member and call no device (USE_LATCH undefined)
cpu1_latch_r_effect(offset) == UNCHANGED machine_vars

\* variant: the wait is requested with a longer bound
cpu1_latch_w_long(offset, data) ==
    /\ m_buffer1' = [m_buffer1 EXCEPT ![offset] = data]
    /\ IF offset = 8
       THEN spin_until_trigger(1000)
       ELSE UNCHANGED sched_vars
    /\ UNCHANGED <<m_buffer0, m_prev_ma6, cpu1_nmi, irq_vars>>

\* variant: the last two offsets both suspend
cpu1_latch_w_ge7(offset, data) ==
    /\ m_buffer1' = [m_buffer1 EXCEPT ![offset] = data]
    /\ IF offset >= 7
       THEN spin_until_trigger(500)
       ELSE UNCHANGED sched_vars
    /\ UNCHANGED <<m_buffer0, m_prev_ma6, cpu1_nmi, irq_vars>>

\* variant: the byte is stored in both buffers
cpu1_latch_w_both(offset, data) ==
    /\ m_buffer1' = [m_buffer1 EXCEPT ![offset] = data]
    /\ m_buffer0' = [m_buffer0 EXCEPT ![offset] = data]
    /\ IF offset = 8
       THEN spin_until_trigger(500)
       ELSE UNCHANGED sched_vars
    /\ UNCHANGED <<m_prev_ma6, cpu1_nmi, irq_vars>>

\* variant: the wait is skipped when the reply's last byte is already there
cpu1_latch_w_replied(offset, data) ==
    /\ m_buffer1' = [m_buffer1 EXCEPT ![offset] = data]
    /\ IF offset = 8 /\ m_buffer0[8] = 0
       THEN spin_until_trigger(500)
       ELSE UNCHANGED sched_vars
    /\ UNCHANGED <<m_buffer0, m_prev_ma6, cpu1_nmi, irq_vars>>

cpu1_latch_w(offset, data) ==
    /\ m_buffer1' = [m_buffer1 EXCEPT ![offset] = data]
    /\ IF offset = 8
       THEN spin_until_trigger(500)
       ELSE UNCHANGED sched_vars
    /\ UNCHANGED <<m_buffer0, m_prev_ma6, cpu1_nmi, irq_vars>>

cpu2_latch_r(offset) == m_buffer1[offset]

\* variant: reading the last byte releases the master CPU
cpu2_latch_r_wake(offset) ==
    /\ IF offset = 8
       THEN trigger(500)
       ELSE UNCHANGED sched_vars
    /\ UNCHANGED <<m_buffer0, m_buffer1, m_prev_ma6, cpu1_nmi, irq_vars>>

cpu2_latch_r_effect(offset) == UNCHANGED machine_vars

\* variant: the master CPU is not awoken
cpu2_latch_w_no_trigger(offset, data) ==
    /\ m_buffer0' = [m_buffer0 EXCEPT ![offset] = data]
    /\ UNCHANGED sched_vars
    /\ UNCHANGED <<m_buffer1, m_prev_ma6, cpu1_nmi, irq_vars>>

\* variant: both CPUs write the same buffer, as with a single latch
cpu2_latch_w_shared(offset, data) ==
    /\ m_buffer1' = [m_buffer1 EXCEPT ![offset] = data]
    /\ IF offset = 8
       THEN trigger(500)
       ELSE UNCHANGED sched_vars
    /\ UNCHANGED <<m_buffer0, m_prev_ma6, cpu1_nmi, irq_vars>>

\* variant: the write at offset 8 signals the resume and stores nothing
cpu2_latch_w_no_store8(offset, data) ==
    /\ IF offset = 8
       THEN /\ trigger(500)
            /\ UNCHANGED m_buffer0
       ELSE /\ m_buffer0' = [m_buffer0 EXCEPT ![offset] = data]
            /\ UNCHANGED sched_vars
    /\ UNCHANGED <<m_buffer1, m_prev_ma6, cpu1_nmi, irq_vars>>

cpu2_latch_w(offset, data) ==
    /\ m_buffer0' = [m_buffer0 EXCEPT ![offset] = data]
    /\ IF offset = 8
       THEN trigger(500)
       ELSE UNCHANGED sched_vars
    /\ UNCHANGED <<m_buffer1, m_prev_ma6, cpu1_nmi, irq_vars>>

\* variant: the master CPU waits for the slave after raising the NMI
nmi_trigger_w_spin(data) ==
    /\ cpu1_nmi' = TRUE
    /\ spin_until_trigger(500)
    /\ UNCHANGED <<m_buffer0, m_buffer1, m_prev_ma6, irq_vars>>

\* variant: the NMI is pulsed only for a non-zero byte
nmi_trigger_w_if_nonzero(data) ==
    /\ cpu1_nmi' = (cpu1_nmi \/ data # 0)
    /\ UNCHANGED <<m_buffer0, m_buffer1, m_prev_ma6, irq_vars, sched_vars>>

nmi_trigger_w(data) ==
    /\ cpu1_nmi' = TRUE
    /\ UNCHANGED <<m_buffer0, m_buffer1, m_prev_ma6, irq_vars, sched_vars>>

\* variant: the line is pulsed and is clear again when the call returns
set_irq0_pulse ==
    /\ cpu1_irq0' = "CLEAR_LINE"
    /\ irq0_raised' = irq0_raised + 1

\* m_cpu[1]->set_input_line(INPUT_LINE_IRQ0, HOLD_LINE)
set_irq0_hold ==
    /\ cpu1_irq0' = "HOLD_LINE"
    /\ irq0_raised' = irq0_raised + 1

\* horizontal-sync callback; ma is the CRTC's current memory address
\* variant: level-triggered, the previous bit is not consulted
tint_level(state, ma) ==
    /\ IF state # 0
       THEN LET ma6 == (BIT(ma, 6) = 1) IN
            /\ IF ma6
               THEN set_irq0_hold
               ELSE UNCHANGED irq_vars
            /\ m_prev_ma6' = ma6
       ELSE UNCHANGED <<irq_vars, m_prev_ma6>>
    /\ UNCHANGED <<m_buffer0, m_buffer1, cpu1_nmi, sched_vars>>

\* variant: the previous bit is stored only when the interrupt is raised
tint_edge_only(state, ma) ==
    /\ IF state # 0
       THEN LET ma6 == (BIT(ma, 6) = 1) IN
            IF ma6 /\ ~m_prev_ma6
            THEN /\ set_irq0_hold
                 /\ m_prev_ma6' = ma6
            ELSE UNCHANGED <<irq_vars, m_prev_ma6>>
       ELSE UNCHANGED <<irq_vars, m_prev_ma6>>
    /\ UNCHANGED <<m_buffer0, m_buffer1, cpu1_nmi, sched_vars>>

\* variant: MA6 is sampled at every call, whatever the sync state
tint_no_state_check(state, ma) ==
    /\ LET ma6 == (BIT(ma, 6) = 1) IN
       /\ IF ma6 /\ ~m_prev_ma6
          THEN set_irq0_hold
          ELSE UNCHANGED irq_vars
       /\ m_prev_ma6' = ma6
    /\ UNCHANGED <<m_buffer0, m_buffer1, cpu1_nmi, sched_vars>>

tint(state, ma) ==
    /\ IF state # 0
       THEN LET ma6 == (BIT(ma, 6) = 1) IN
            /\ IF ma6 /\ ~m_prev_ma6
               THEN set_irq0_hold
               ELSE UNCHANGED irq_vars
            /\ m_prev_ma6' = ma6
       ELSE UNCHANGED <<irq_vars, m_prev_ma6>>
    /\ UNCHANGED <<m_buffer0, m_buffer1, cpu1_nmi, sched_vars>>

\* variant: only the buffer read by CPU A is cleared
docastle_machine_reset_half ==
    /\ m_buffer0' = ZeroBuffer
    /\ m_prev_ma6' = FALSE
    /\ UNCHANGED <<m_buffer1, cpu1_nmi, irq_vars, sched_vars>>

docastle_machine_reset ==
    /\ m_buffer0' = ZeroBuffer
    /\ m_buffer1' = ZeroBuffer
    /\ m_prev_ma6' = FALSE
    /\ UNCHANGED <<cpu1_nmi, irq_vars, sched_vars>>

-----------------------------------------------------------------------------
(* Indoor Soccer: ADPCM playback through the MSM5205 *)

\* the byte of the "adpcm" region at a position
AdpcmRom(pos) == (pos * 37 + (pos \div 256) + 11) % 256

\* msm5205_device::reset_w
reset_w(level) == msm_reset' = level

\* msm5205_device::data_w
data_w(nibble) ==
    /\ msm_data' = nibble
    /\ msm_count' = msm_count + 1

\* variant: the end of the region is tested with > instead of >=
adpcm_int_past_end(state) ==
    /\ IF m_adpcm_pos > AdpcmBytes
       THEN /\ m_adpcm_idle' = 1
            /\ reset_w(1)
            /\ UNCHANGED <<m_adpcm_pos, m_adpcm_data, msm_data, msm_count,
                           adpcm_fetch>>
       ELSE IF m_adpcm_data # -1
            THEN /\ data_w(m_adpcm_data % 16)
                 /\ m_adpcm_data' = -1
                 /\ UNCHANGED <<m_adpcm_pos, m_adpcm_idle, msm_reset,
                                adpcm_fetch>>
            ELSE /\ m_adpcm_data' = AdpcmRom(m_adpcm_pos)
                 /\ adpcm_fetch' = m_adpcm_pos
                 /\ m_adpcm_pos' = m_adpcm_pos + 1
                 /\ data_w(AdpcmRom(m_adpcm_pos) \div 16)
                 /\ UNCHANGED <<m_adpcm_idle, msm_reset>>
    /\ UNCHANGED m_adpcm_status

\* adpcm_fetch records the position m_adpcm[] is read at
adpcm_int(state) ==
    /\ IF m_adpcm_pos >= AdpcmBytes
       THEN /\ m_adpcm_idle' = 1
            /\ reset_w(1)
            /\ UNCHANGED <<m_adpcm_pos, m_adpcm_data, msm_data, msm_count,
                           adpcm_fetch>>
       ELSE IF m_adpcm_data # -1
            THEN /\ data_w(m_adpcm_data % 16)
                 /\ m_adpcm_data' = -1
                 /\ UNCHANGED <<m_adpcm_pos, m_adpcm_idle, msm_reset,
                                adpcm_fetch>>
            ELSE /\ m_adpcm_data' = AdpcmRom(m_adpcm_pos)
                 /\ adpcm_fetch' = m_adpcm_pos
                 /\ m_adpcm_pos' = m_adpcm_pos + 1
                 /\ data_w(AdpcmRom(m_adpcm_pos) \div 16)
                 /\ UNCHANGED <<m_adpcm_idle, msm_reset>>
    /\ UNCHANGED m_adpcm_status

\* the status after the read, which the read returns
adpcm_status_r == (m_adpcm_status + 128) % 256

adpcm_w(data) ==
    /\ IF BIT(data, 7) = 1
       THEN /\ m_adpcm_idle' = 1
            /\ reset_w(1)
            /\ UNCHANGED m_adpcm_pos
       ELSE /\ m_adpcm_pos' = (data % 128) * AdpcmBlock
            /\ m_adpcm_idle' = 0
            /\ reset_w(0)
    /\ UNCHANGED <<m_adpcm_data, m_adpcm_status, msm_data>>

\* idsoccer_state::machine_reset
idsoccer_machine_reset ==
    /\ docastle_machine_reset
    /\ m_adpcm_pos' = 0
    /\ m_adpcm_idle' = 0
    /\ m_adpcm_data' = -1
    /\ m_adpcm_status' = 0

-----------------------------------------------------------------------------
(* Bank Panic: video control and the vblank NMI *)

\* device_execute_interface::pulse_input_line(INPUT_LINE_NMI, attotime::zero)
\* on the main CPU
bankp_pulse_nmi ==
    /\ bankp_nmi' = TRUE
    /\ nmi_pulses' = nmi_pulses + 1

bankp_scroll_w(data) == m_scroll_x' = data

\* variant: the NMI enable is taken from bit 5
video_control_w_bit5(data) ==
    /\ m_priority' = data % 4
    /\ m_display_on' = (BIT(data, 2) = 1)
    /\ m_color_hi' = (BIT(data, 3) = 1)
    /\ bankp_all_dirty' = (bankp_all_dirty \/ m_color_hi # (BIT(data, 3) = 1))
    /\ m_nmi_mask' = (BIT(data, 5) = 1)
    /\ bankp_flip' = BIT(data, 5)
    /\ bankp_ctrl' = data

\* bankp_ctrl records the data argument
video_control_w(data) ==
    /\ m_priority' = data % 4
    /\ m_display_on' = (BIT(data, 2) = 1)
    /\ m_color_hi' = (BIT(data, 3) = 1)
    /\ bankp_all_dirty' = (bankp_all_dirty \/ m_color_hi # (BIT(data, 3) = 1))
    /\ m_nmi_mask' = (BIT(data, 4) = 1)
    /\ bankp_flip' = BIT(data, 5)
    /\ bankp_ctrl' = data

video_reset == video_control_w(0)

\* variant: the NMI is pulsed at both edges of vblank
vblank_interrupt_both_edges(state) ==
    IF m_nmi_mask
    THEN bankp_pulse_nmi
    ELSE UNCHANGED <<bankp_nmi, nmi_pulses>>

\* variant: the NMI is pulsed whatever the mask
vblank_interrupt_unmasked(state) ==
    IF state # 0
    THEN bankp_pulse_nmi
    ELSE UNCHANGED <<bankp_nmi, nmi_pulses>>

vblank_interrupt(state) ==
    IF state # 0 /\ m_nmi_mask
    THEN bankp_pulse_nmi
    ELSE UNCHANGED <<bankp_nmi, nmi_pulses>>

-----------------------------------------------------------------------------
(* Mr. Do! protection: the PAL16R6 at U001 and the read of its outputs *)

\* the machine variants of the game list: class (equations), constructor
\* argument (m_bypass_pal) and machine configuration (m_pal_enabled)
Boards ==
    { [name |-> "mrdo",  m_pal_enabled |-> TRUE,  m_bypass_pal |-> TRUE,
       equations |-> FALSE],
      [name |-> "mrdot", m_pal_enabled |-> TRUE,  m_bypass_pal |-> FALSE,
       equations |-> TRUE],
      [name |-> "mrlo",  m_pal_enabled |-> FALSE, m_bypass_pal |-> TRUE,
       equations |-> FALSE] }

Xor1(b) == 1 - b
And7(a, b, c, d, e, f, g) == a * b * c * d * e * f * g
Or2(a, b) == IF a = 1 \/ b = 1 THEN 1 ELSE 0
Shl(b, n) == (b * (2 ^ n)) % 256

\* bitwise OR of eight bytes
OrBytes(a, b, c, d, e, f, g, h) ==
    LET bit(k) == IF 1 \in {BIT(a, k), BIT(b, k), BIT(c, k), BIT(d, k),
                            BIT(e, k), BIT(f, k), BIT(g, k), BIT(h, k)}
                  THEN 1 ELSE 0 IN
    bit(0) + 2 * bit(1) + 4 * bit(2) + 8 * bit(3) + 16 * bit(4)
        + 32 * bit(5) + 64 * bit(6) + 128 * bit(7)

\* bitwise complement of a byte
NotByte(x) == 255 - x

\* variant: pin 7 (bit 2) takes the place of pin 6 in the first term
pal16r6_pin7(data) ==
    LET i9 == BIT(data, 0)
        i8 == BIT(data, 1)
        i7 == BIT(data, 2)
        i6 == BIT(data, 3)
        i5 == BIT(data, 4)
        i4 == BIT(data, 5)
        i3 == BIT(data, 6)
        i2 == BIT(data, 7)
        t1 == And7(i2, Xor1(i3), i4, Xor1(i5), Xor1(i7), Xor1(i8), i9)
        t2 == And7(Xor1(i2), Xor1(i3), i4, i5, Xor1(i6), i8, Xor1(i9))
        t3 == And7(i2, i3, Xor1(i4), Xor1(i5), i6, Xor1(i8), i9)
        t4 == And7(Xor1(i2), i3, i4, Xor1(i5), i6, i8, i9)
        r12 == 0
        r13 == Shl(t1, 1)
        r14 == Shl(Or2(t1, t2), 2)
        r15 == Shl(Or2(t1, t3), 3)
        r16 == Shl(t1, 4)
        r17 == Shl(Or2(t1, t3), 5)
        r18 == Shl(Or2(t3, t4), 6)
        r19 == 0
    IN NotByte(OrBytes(r19, r18, r17, r16, r15, r14, r13, r12))

\* variant: the outputs are stored without the complement
pal16r6_active_high(data) ==
    LET i9 == BIT(data, 0)
        i8 == BIT(data, 1)
        i6 == BIT(data, 3)
        i5 == BIT(data, 4)
        i4 == BIT(data, 5)
        i3 == BIT(data, 6)
        i2 == BIT(data, 7)
        t1 == And7(i2, Xor1(i3), i4, Xor1(i5), Xor1(i6), Xor1(i8), i9)
        t2 == And7(Xor1(i2), Xor1(i3), i4, i5, Xor1(i6), i8, Xor1(i9))
        t3 == And7(i2, i3, Xor1(i4), Xor1(i5), i6, Xor1(i8), i9)
        t4 == And7(Xor1(i2), i3, i4, Xor1(i5), i6, i8, i9)
        r12 == 0
        r13 == Shl(t1, 1)
        r14 == Shl(Or2(t1, t2), 2)
        r15 == Shl(Or2(t1, t3), 3)
        r16 == Shl(t1, 4)
        r17 == Shl(Or2(t1, t3), 5)
        r18 == Shl(Or2(t3, t4), 6)
        r19 == 0
    IN OrBytes(r19, r18, r17, r16, r15, r14, r13, r12)

\* variant: pin 19 is driven by the fourth term
pal16r6_r19(data) ==
    LET i9 == BIT(data, 0)
        i8 == BIT(data, 1)
        i6 == BIT(data, 3)
        i5 == BIT(data, 4)
        i4 == BIT(data, 5)
        i3 == BIT(data, 6)
        i2 == BIT(data, 7)
        t1 == And7(i2, Xor1(i3), i4, Xor1(i5), Xor1(i6), Xor1(i8), i9)
        t2 == And7(Xor1(i2), Xor1(i3), i4, i5, Xor1(i6), i8, Xor1(i9))
        t3 == And7(i2, i3, Xor1(i4), Xor1(i5), i6, Xor1(i8), i9)
        t4 == And7(Xor1(i2), i3, i4, Xor1(i5), i6, i8, i9)
        r12 == 0
        r13 == Shl(t1, 1)
        r14 == Shl(Or2(t1, t2), 2)
        r15 == Shl(Or2(t1, t3), 3)
        r16 == Shl(t1, 4)
        r17 == Shl(Or2(t1, t3), 5)
        r18 == Shl(Or2(t3, t4), 6)
        r19 == Shl(t4, 7)
    IN NotByte(OrBytes(r19, r18, r17, r16, r15, r14, r13, r12))

\* the value mrdot_state::update_protection latches for the written byte
pal16r6(data) ==
    LET i9 == BIT(data, 0)
        i8 == BIT(data, 1)
        i6 == BIT(data, 3)
        i5 == BIT(data, 4)
        i4 == BIT(data, 5)
        i3 == BIT(data, 6)
        i2 == BIT(data, 7)
        t1 == And7(i2, Xor1(i3), i4, Xor1(i5), Xor1(i6), Xor1(i8), i9)
        t2 == And7(Xor1(i2), Xor1(i3), i4, i5, Xor1(i6), i8, Xor1(i9))
        t3 == And7(i2, i3, Xor1(i4), Xor1(i5), i6, Xor1(i8), i9)
        t4 == And7(Xor1(i2), i3, i4, Xor1(i5), i6, i8, i9)
        r12 == 0
        r13 == Shl(t1, 1)
        r14 == Shl(Or2(t1, t2), 2)
        r15 == Shl(Or2(t1, t3), 3)
        r16 == Shl(t1, 4)
        r17 == Shl(Or2(t1, t3), 5)
        r18 == Shl(Or2(t3, t4), 6)
        r19 == 0
    IN NotByte(OrBytes(r19, r18, r17, r16, r15, r14, r13, r12))

\* variant: an output pulled low stays low until reset
mrdot_update_protection_sticky(data) ==
    m_pal_u001' = IF m_pal_u001 = 255 THEN pal16r6(data) ELSE m_pal_u001

mrdot_update_protection(data) == m_pal_u001' = pal16r6(data)

\* variant: the base hook evaluates the equations too
mrdo_update_protection_eq(data) == m_pal_u001' = pal16r6(data)

\* variant: the base hook latches the byte written
mrdo_update_protection_store(data) == m_pal_u001' = data

\* mrdo_state::update_protection: the base hook latches nothing
mrdo_update_protection(data) == UNCHANGED m_pal_u001

\* virtual dispatch on the class of the machine
update_protection(data) ==
    IF board.equations
    THEN mrdot_update_protection(data)
    ELSE mrdo_update_protection(data)

\* no protection read has been made since the last clock write
NoRead == [n |-> 0, val |-> 0, hl |-> 0, mixed |-> FALSE]

\* m_clocked and prev_read record the call
protection_w(data) ==
    /\ IF board.m_pal_enabled
       THEN update_protection(data)
       ELSE UNCHANGED m_pal_u001
    /\ m_clocked' = <<data>>
    /\ prev_read' = NoRead

\* variant: the bypass flag is tested first
protection_r_bypass_first ==
    IF board.m_bypass_pal
    THEN rom[z80_hl]
    ELSE IF board.m_pal_enabled
         THEN m_pal_u001
         ELSE unmap_value

\* variant: a disabled protection reads the ROM byte at HL
protection_r_rom_when_disabled ==
    IF board.m_pal_enabled
    THEN IF board.m_bypass_pal
         THEN rom[z80_hl]
         ELSE m_pal_u001
    ELSE rom[z80_hl]

\* variant: the bypass flag is not consulted
protection_r_latch ==
    IF board.m_pal_enabled
    THEN m_pal_u001
    ELSE unmap_value

protection_r ==
    IF board.m_pal_enabled
    THEN IF board.m_bypass_pal
         THEN rom[z80_hl]
         ELSE m_pal_u001
    ELSE unmap_value

\* tilemap::mark_tile_dirty
mark_tile_dirty(which, offset) ==
    tile_dirty' = tile_dirty \cup {<<which, offset>>}

\* variant: the PAL is clocked only when the stored byte changes
fieldram_w_if_changed(which, offset, data) ==
    /\ IF m_fieldram[which][offset] # data
       THEN /\ m_fieldram' = [m_fieldram EXCEPT ![which][offset] = data]
            /\ mark_tile_dirty(which, offset)
            /\ protection_w(data)
       ELSE UNCHANGED <<m_fieldram, tile_dirty, m_pal_u001, m_clocked,
                        prev_read>>
    /\ UNCHANGED m_colorram

\* fieldram_w<Which>
fieldram_w(which, offset, data) ==
    /\ IF m_fieldram[which][offset] # data
       THEN /\ m_fieldram' = [m_fieldram EXCEPT ![which][offset] = data]
            /\ mark_tile_dirty(which, offset)
       ELSE UNCHANGED <<m_fieldram, tile_dirty>>
    /\ protection_w(data)
    /\ UNCHANGED m_colorram

\* colorram_w<Which>
colorram_w(which, offset, data) ==
    /\ IF m_colorram[which][offset] # data
       THEN /\ m_colorram' = [m_colorram EXCEPT ![which][offset] = data]
            /\ mark_tile_dirty(which, offset)
       ELSE UNCHANGED <<m_colorram, tile_dirty>>
    /\ protection_w(data)
    /\ UNCHANGED m_fieldram

\* a write to the sprite RAM, which has no handler
spriteram_w(offset, data) ==
    /\ m_spriteram' = [m_spriteram EXCEPT ![offset] = data]
    /\ UNCHANGED <<tilemap_scrollx, tilemap_scrolly, m_flipscreen,
                   tilemap_flip, maincpu_irq0, pal_vars, tvram_vars>>

scrollx_w(data) ==
    /\ tilemap_scrollx' = data
    /\ UNCHANGED <<m_spriteram, tilemap_scrolly, m_flipscreen, tilemap_flip,
                   maincpu_irq0, pal_vars, tvram_vars>>

scrolly_w(data) ==
    /\ tilemap_scrolly' = IF m_flipscreen THEN (256 - data) % 256 ELSE data
    /\ UNCHANGED <<m_spriteram, tilemap_scrollx, m_flipscreen, tilemap_flip,
                   maincpu_irq0, pal_vars, tvram_vars>>

\* TILEMAP_FLIPY | TILEMAP_FLIPX
FlipXY == 3

\* variant: the write at 0x9800 clocks the PAL as a video RAM write does
flipscreen_w_clocks(data) ==
    /\ m_flipscreen' = (BIT(data, 0) = 1)
    /\ tilemap_flip' = IF BIT(data, 0) = 1 THEN FlipXY ELSE 0
    /\ protection_w(data)
    /\ UNCHANGED <<m_spriteram, tilemap_scrollx, tilemap_scrolly,
                   maincpu_irq0, tvram_vars>>

flipscreen_w(data) ==
    /\ m_flipscreen' = (BIT(data, 0) = 1)
    /\ tilemap_flip' = IF BIT(data, 0) = 1 THEN FlipXY ELSE 0
    /\ UNCHANGED <<m_spriteram, tilemap_scrollx, tilemap_scrolly,
                   maincpu_irq0, pal_vars, tvram_vars>>

irq_clear_w(state) ==
    IF state # 0
    THEN maincpu_irq0' = "CLEAR_LINE"
    ELSE UNCHANGED maincpu_irq0

\* variant: the end of vblank leaves the line as it is
vblank_w_no_clear(state) ==
    /\ IF state # 0
       THEN maincpu_irq0' = "ASSERT_LINE"
       ELSE UNCHANGED maincpu_irq0
    /\ UNCHANGED <<m_spriteram, tilemap_scrollx, tilemap_scrolly,
                   m_flipscreen, tilemap_flip, pal_vars, tvram_vars>>

\* variant: the line is asserted at both edges of vblank
vblank_w_both_edges(state) ==
    /\ maincpu_irq0' = "ASSERT_LINE"
    /\ UNCHANGED <<m_spriteram, tilemap_scrollx, tilemap_scrolly,
                   m_flipscreen, tilemap_flip, pal_vars, tvram_vars>>

vblank_w(state) ==
    /\ IF state # 0
       THEN maincpu_irq0' = "ASSERT_LINE"
       ELSE irq_clear_w(1)
    /\ UNCHANGED <<m_spriteram, tilemap_scrollx, tilemap_scrolly,
                   m_flipscreen, tilemap_flip, pal_vars, tvram_vars>>

\* variant: the latch is cleared to 0
mrdo_machine_reset_zero == m_pal_u001' = 0

\* initial outputs are high on power-up
mrdo_machine_reset == m_pal_u001' = 255

-----------------------------------------------------------------------------
(* State after construction and machine_start/machine_reset *)

InitMachine ==
    /\ m_buffer0 = ZeroBuffer
    /\ m_buffer1 = ZeroBuffer
    /\ m_prev_ma6 = FALSE
    /\ cpu0_suspended = FALSE
    /\ cpu1_suspended = FALSE
    /\ spin_arg = 0
    /\ spin_elapsed = 0
    /\ cpu1_nmi = FALSE
    /\ cpu1_irq0 = "CLEAR_LINE"
    /\ irq0_raised = 0
    /\ wake_cause = "none"

\* the ADPCM unit after idsoccer_state::machine_reset; nothing written to
\* the MSM5205 yet
InitAdpcm ==
    /\ m_adpcm_pos = 0
    /\ m_adpcm_idle = 0
    /\ m_adpcm_data = -1
    /\ m_adpcm_status = 0
    /\ msm_reset = 0
    /\ msm_data = -1
    /\ msm_count = 0
    /\ adpcm_fetch = -1
    /\ adpcm_start = -1
    /\ adpcm_calls = 0

\* Bank Panic after construction and video_reset; the screen is outside
\* vblank and no NMI was given
InitBankp ==
    /\ m_scroll_x = 0
    /\ m_priority = 0
    /\ m_color_hi = FALSE
    /\ m_display_on = FALSE
    /\ m_nmi_mask = FALSE
    /\ bankp_flip = 0
    /\ bankp_all_dirty = FALSE
    /\ bankp_vblank = 0
    /\ bankp_nmi = FALSE
    /\ nmi_pulses = 0
    /\ vblank_calls = 0
    /\ bankp_ctrl = 0

IdleA == [at |-> "idle", k |-> 0, sent |-> 0]
IdleB == [at |-> "idle", r |-> 0, w |-> 0]
NoMsg == [bytes |-> ZeroBuffer, n |-> 0]

InitGhost ==
    /\ last_op = Op("none", 0, 0)
    /\ ops = 0
    /\ pcA = IdleA
    /\ pcB = IdleB
    /\ a_msg = NoMsg
    /\ b_msg = NoMsg
    /\ b_seen = {}
    /\ samples = <<>>
    /\ fired = {}

\* the Mr. Do! machine is not part of the docastle specifications
MrdoAbsent ==
    /\ board = [name |-> "none", m_pal_enabled |-> FALSE,
                m_bypass_pal |-> FALSE, equations |-> FALSE]
    /\ running = FALSE
    /\ m_pal_u001 = 0
    /\ z80_hl = 0
    /\ rom = <<>>
    /\ unmap_value = 0
    /\ m_clocked = <<>>
    /\ prev_read = NoRead
    /\ m_fieldram = <<>>
    /\ m_colorram = <<>>
    /\ tile_dirty = {}
    /\ m_spriteram = [o \in RamOffsets |-> 0]
    /\ tilemap_scrollx = 0
    /\ tilemap_scrolly = 0
    /\ m_flipscreen = FALSE
    /\ tilemap_flip = 0
    /\ maincpu_irq0 = "CLEAR_LINE"
    /\ mrdo_vblank = 0
    /\ mrdo_vblanks = 0
    /\ irq_acked = FALSE

Init == InitMachine /\ InitGhost /\ InitAdpcm /\ InitBankp /\ MrdoAbsent

-----------------------------------------------------------------------------
(* Spec: the bus handlers and callbacks called in any order, with any      *)
(* offset and data, by the two CPUs and the CRTC.  A suspended CPU A       *)
(* executes nothing.                                                        *)

Did(name, offset, data) ==
    /\ ops < MaxOps
    /\ ops' = ops + 1
    /\ last_op' = Op(name, offset, data)
    /\ UNCHANGED <<program_vars, raster_vars, mrdo_vars, adpcm_vars, bankp_vars>>

Dirty == (IF m_buffer0 # ZeroBuffer THEN 1 ELSE 0)
         + (IF m_buffer1 # ZeroBuffer THEN 2 ELSE 0)
         + (IF m_prev_ma6 THEN 4 ELSE 0)

Cpu1LatchR ==
    \E o \in Offsets :
        /\ ~cpu0_suspended
        /\ Did("cpu1_latch_r", o, cpu1_latch_r(o))
        /\ cpu1_latch_r_effect(o)

Cpu1LatchW ==
    \E o \in Offsets, d \in LatchData :
        /\ ~cpu0_suspended
        /\ cpu1_latch_w(o, d)
        /\ Did("cpu1_latch_w", o, d)

Cpu2LatchR ==
    \E o \in Offsets :
        /\ Did("cpu2_latch_r", o, cpu2_latch_r(o))
        /\ cpu2_latch_r_effect(o)

Cpu2LatchW ==
    \E o \in Offsets, d \in LatchData :
        /\ cpu2_latch_w(o, d)
        /\ Did("cpu2_latch_w", o, d)

NmiTriggerW ==
    \E d \in LatchData :
        /\ ~cpu0_suspended
        /\ nmi_trigger_w(d)
        /\ Did("nmi_trigger_w", 0, d)

Tint ==
    \E state \in {0, 1}, ma \in MAValues :
        /\ tint(state, ma)
        /\ Did("tint", state, BIT(ma, 6))

Irq0Ack ==
    /\ irq0_acknowledge
    /\ Did("irq0_acknowledge", 0, 0)

\* the operation records which of the buffers and the edge detector were set
MachineReset ==
    /\ docastle_machine_reset
    /\ Did("machine_reset", 0, Dirty)

Tick ==
    \E dt \in TickSteps :
        /\ advance_time(dt)
        /\ UNCHANGED <<last_op, ops, program_vars, raster_vars, mrdo_vars, adpcm_vars, bankp_vars>>

Next ==
    \/ Cpu1LatchR
    \/ Cpu1LatchW
    \/ Cpu2LatchR
    \/ Cpu2LatchW
    \/ NmiTriggerW
    \/ Tint
    \/ Irq0Ack
    \/ MachineReset
    \/ Tick

Spec == Init /\ [][Next]_vars

-----------------------------------------------------------------------------
(* LatchSpec: the two CPUs run the handshake.  CPU A triggers the NMI,     *)
(* writes the 9 bytes of a message at offsets 0..8, is suspended, and on    *)
(* resuming reads the 9 bytes of the reply.  CPU B services the NMI at its  *)
(* own pace, or not at all: it reads offsets 0..8 and writes offsets 0..8   *)
(* of its reply, each in ascending order.  Time passes while CPU A is       *)
(* suspended.                                                               *)

MsgsA == { [k \in Offsets |-> 16 + k], [k \in Offsets |-> 32 + k] }
MsgsB == { [k \in Offsets |-> 128 + k], [k \in Offsets |-> 144 + k] }

Saw(name, offset, data) ==
    /\ last_op' = Op(name, offset, data)
    /\ UNCHANGED <<ops, raster_vars, mrdo_vars, adpcm_vars, bankp_vars>>

A_TriggerNmi ==
    \E m \in MsgsA :
        /\ pcA.at = "idle"
        /\ pcA.sent < MaxMsgs
        /\ ~cpu0_suspended
        /\ nmi_trigger_w(0)
        /\ pcA' = [pcA EXCEPT !.at = "write", !.k = 0]
        /\ a_msg' = [bytes |-> m, n |-> 0]
        /\ Saw("nmi_trigger_w", 0, 0)
        /\ UNCHANGED <<pcB, b_msg, b_seen>>

A_Write ==
    /\ pcA.at = "write"
    /\ ~cpu0_suspended
    /\ cpu1_latch_w(pcA.k, a_msg.bytes[pcA.k])
    /\ a_msg' = [a_msg EXCEPT !.n = @ + 1]
    /\ pcA' = IF pcA.k = LatchSize - 1
              THEN [at |-> "read", k |-> 0, sent |-> pcA.sent + 1]
              ELSE [pcA EXCEPT !.k = @ + 1]
    /\ Saw("cpu1_latch_w", pcA.k, a_msg.bytes[pcA.k])
    /\ UNCHANGED <<pcB, b_msg, b_seen>>

A_Read ==
    /\ pcA.at = "read"
    /\ ~cpu0_suspended
    /\ pcA' = IF pcA.k = LatchSize - 1
              THEN [pcA EXCEPT !.at = "idle", !.k = 0]
              ELSE [pcA EXCEPT !.k = @ + 1]
    /\ Saw("cpu1_latch_r", pcA.k, cpu1_latch_r(pcA.k))
    /\ cpu1_latch_r_effect(pcA.k)
    /\ UNCHANGED <<pcB, a_msg, b_msg, b_seen>>

\* m_cpu[1] takes the latched NMI and enters its service routine
B_TakeNmi ==
    \E m \in MsgsB :
        /\ cpu1_nmi
        /\ cpu1_nmi' = FALSE
        /\ pcB' = [at |-> "service", r |-> 0, w |-> 0]
        /\ b_msg' = [bytes |-> m, n |-> 0]
        /\ b_seen' = {}
        /\ Saw("nmi_taken", 0, 0)
        /\ UNCHANGED <<m_buffer0, m_buffer1, m_prev_ma6, irq_vars, sched_vars,
                       pcA, a_msg>>

B_Read ==
    /\ pcB.at = "service"
    /\ pcB.r < LatchSize
    /\ pcB' = [pcB EXCEPT !.r = @ + 1]
    /\ Saw("cpu2_latch_r", pcB.r, cpu2_latch_r(pcB.r))
    /\ cpu2_latch_r_effect(pcB.r)
    /\ UNCHANGED <<pcA, a_msg, b_msg, b_seen>>

B_Write ==
    /\ pcB.at = "service"
    /\ pcB.w < LatchSize
    /\ cpu2_latch_w(pcB.w, b_msg.bytes[pcB.w])
    /\ b_msg' = [b_msg EXCEPT !.n = @ + 1]
    /\ pcB' = [pcB EXCEPT !.w = @ + 1]
    /\ Saw("cpu2_latch_w", pcB.w, b_msg.bytes[pcB.w])
    /\ UNCHANGED <<pcA, a_msg, b_seen>>

LatchNext ==
    \/ A_TriggerNmi
    \/ A_Write
    \/ A_Read
    \/ B_TakeNmi
    \/ B_Read
    \/ B_Write
    \/ Tick

\* the scheduler's timeline always advances; neither CPU's program is hurried
LatchSpec == Init /\ [][LatchNext]_vars /\ WF_vars(Tick)

-----------------------------------------------------------------------------
(* TornSpec: the handshake of LatchSpec, in which every CPU B read is      *)
(* recorded with the number of the CPU A message its byte belongs to: 0    *)
(* is the content left by reset, n the n-th message.                        *)

\* the message that byte k of m_buffer1 belongs to
Owner(k) ==
    IF pcA.at = "write" /\ pcA.k > k THEN pcA.sent + 1 ELSE pcA.sent

B_ReadNoted ==
    /\ pcB.at = "service"
    /\ pcB.r < LatchSize
    /\ pcB' = [pcB EXCEPT !.r = @ + 1]
    /\ b_seen' = b_seen \cup {Owner(pcB.r)}
    /\ Saw("cpu2_latch_r", pcB.r, cpu2_latch_r(pcB.r))
    /\ cpu2_latch_r_effect(pcB.r)
    /\ UNCHANGED <<pcA, a_msg, b_msg>>

TornNext ==
    \/ A_TriggerNmi
    \/ A_Write
    \/ A_Read
    \/ B_TakeNmi
    \/ B_ReadNoted
    \/ B_Write
    \/ Tick

TornSpec == Init /\ [][TornNext]_vars

-----------------------------------------------------------------------------
(* RasterSpec: the CRTC calls the horizontal-sync callback; the MA6 bits   *)
(* sampled since the last reset are recorded with the samples at which     *)
(* the IRQ0 line of m_cpu[1] was asserted.                                  *)

Budget(name, offset, data) ==
    /\ ops < MaxSamples
    /\ ops' = ops + 1
    /\ last_op' = Op(name, offset, data)
    /\ UNCHANGED <<program_vars, mrdo_vars, adpcm_vars, bankp_vars>>

HSync ==
    \E state \in {0, 1}, ma \in MAValues :
        /\ tint(state, ma)
        /\ samples' = IF state # 0 THEN Append(samples, BIT(ma, 6)) ELSE samples
        /\ fired' = IF irq0_raised' # irq0_raised
                    THEN fired \cup {Len(samples)} ELSE fired
        /\ Budget("tint", state, BIT(ma, 6))

RasterIrq0Ack ==
    /\ irq0_acknowledge
    /\ last_op' = Op("irq0_acknowledge", 0, 0)
    /\ UNCHANGED <<ops, program_vars, raster_vars, mrdo_vars, adpcm_vars, bankp_vars>>

RasterReset ==
    /\ docastle_machine_reset
    /\ samples' = <<>>
    /\ fired' = {}
    /\ Budget("machine_reset", 0, Dirty)

RasterNext ==
    \/ HSync
    \/ RasterIrq0Ack
    \/ RasterReset

RasterSpec == Init /\ [][RasterNext]_vars

-----------------------------------------------------------------------------
(* AdpcmSpec: the main CPU of Indoor Soccer writes the ADPCM command       *)
(* register and reads the status; the MSM5205 calls adpcm_int at every      *)
(* sample clock; the machine may be reset.  The calls of adpcm_int are      *)
(* counted from the last start or reset, up to MaxCalls.                    *)

AdpcmDid(name, offset, data) ==
    /\ last_op' = Op(name, offset, data)
    /\ UNCHANGED <<ops, program_vars, raster_vars, mrdo_vars, bankp_vars>>

AdpcmW ==
    \E data \in AdpcmData :
        /\ adpcm_w(data)
        /\ IF BIT(data, 7) = 1
           THEN /\ adpcm_start' = -1
                /\ UNCHANGED <<adpcm_calls, msm_count>>
           ELSE /\ adpcm_start' = m_adpcm_pos'
                /\ adpcm_calls' = 0
                /\ msm_count' = 0
        /\ AdpcmDid("adpcm_w", 0, data)
        /\ UNCHANGED <<machine_vars, adpcm_fetch>>

AdpcmInt ==
    \E state \in {0, 1} :
        /\ adpcm_calls < MaxCalls
        /\ adpcm_int(state)
        /\ adpcm_calls' = adpcm_calls + 1
        /\ AdpcmDid("adpcm_int", 0, 0)
        /\ UNCHANGED <<machine_vars, adpcm_start>>

AdpcmStatusR ==
    /\ m_adpcm_status' = adpcm_status_r
    /\ AdpcmDid("adpcm_status_r", 0, adpcm_status_r)
    /\ UNCHANGED <<machine_vars, m_adpcm_pos, m_adpcm_idle, m_adpcm_data,
                   msm_reset, msm_data, msm_count, adpcm_fetch, adpcm_start,
                   adpcm_calls>>

IdsoccerReset ==
    /\ idsoccer_machine_reset
    /\ adpcm_start' = -1
    /\ adpcm_calls' = 0
    /\ msm_count' = 0
    /\ AdpcmDid("machine_reset", 0, 0)
    /\ UNCHANGED <<msm_reset, msm_data, adpcm_fetch>>

AdpcmNext ==
    \/ AdpcmW
    \/ AdpcmInt
    \/ AdpcmStatusR
    \/ IdsoccerReset

AdpcmSpec == Init /\ [][AdpcmNext]_vars

-----------------------------------------------------------------------------
(* BankpSpec: the main CPU of Bank Panic writes the scroll and video        *)
(* control ports and takes the latched NMI; the screen calls                *)
(* vblank_interrupt at each edge of vblank, with the new vblank state; the  *)
(* video may be reset.  The calls of vblank_interrupt are counted up to     *)
(* MaxVblanks.                                                              *)

BankpDid(name, offset, data) ==
    /\ last_op' = Op(name, offset, data)
    /\ UNCHANGED <<machine_vars, ops, program_vars, raster_vars, mrdo_vars,
                   adpcm_vars>>

BankpScrollW ==
    \E data \in ScrollData :
        /\ bankp_scroll_w(data)
        /\ BankpDid("scroll_w", 5, data)
        /\ UNCHANGED <<m_priority, m_color_hi, m_display_on, m_nmi_mask,
                       bankp_flip, bankp_all_dirty, bankp_vblank, bankp_nmi,
                       nmi_pulses, vblank_calls, bankp_ctrl>>

VideoControlW ==
    \E data \in ControlData :
        /\ video_control_w(data)
        /\ BankpDid("video_control_w", 7, data)
        /\ UNCHANGED <<m_scroll_x, bankp_vblank, bankp_nmi, nmi_pulses,
                       vblank_calls>>

VideoReset ==
    /\ video_reset
    /\ BankpDid("video_reset", 0, 0)
    /\ UNCHANGED <<m_scroll_x, bankp_vblank, bankp_nmi, nmi_pulses,
                   vblank_calls>>

VblankInterrupt ==
    /\ vblank_calls < MaxVblanks
    /\ bankp_vblank' = 1 - bankp_vblank
    /\ vblank_interrupt(bankp_vblank')
    /\ vblank_calls' = vblank_calls + 1
    /\ BankpDid("vblank_interrupt", 0, bankp_vblank')
    /\ UNCHANGED <<m_scroll_x, m_priority, m_color_hi, m_display_on,
                   m_nmi_mask, bankp_flip, bankp_all_dirty, bankp_ctrl>>

BankpTakeNmi ==
    /\ bankp_nmi
    /\ bankp_nmi' = FALSE
    /\ BankpDid("take_nmi", 0, 0)
    /\ UNCHANGED <<m_scroll_x, m_priority, m_color_hi, m_display_on,
                   m_nmi_mask, bankp_flip, bankp_all_dirty, bankp_vblank,
                   nmi_pulses, vblank_calls, bankp_ctrl>>

BankpNext ==
    \/ BankpScrollW
    \/ VideoControlW
    \/ VideoReset
    \/ VblankInterrupt
    \/ BankpTakeNmi

BankpSpec == Init /\ [][BankpNext]_vars

-----------------------------------------------------------------------------
(* MrdoSpec: a machine variant is built and reset; the main CPU then       *)
(* clocks the PAL, reads the protection address and changes HL, in any      *)
(* order; the machine may be reset at any time.  The bytes clocked are      *)
(* those that satisfy a product term, 0x00 and 0xFF.                        *)

DocastleAbsent == InitMachine /\ InitGhost /\ InitAdpcm /\ InitBankp

MrdoInit ==
    /\ board \in Boards
    /\ running = FALSE
    /\ m_pal_u001 = 0
    /\ z80_hl \in RomAddrs
    /\ rom \in RomImages
    /\ unmap_value \in {0, 255}
    /\ m_clocked = <<>>
    /\ prev_read = NoRead
    /\ m_fieldram = ZeroRam
    /\ m_colorram = ZeroRam
    /\ tile_dirty = {}
    /\ m_spriteram = [o \in RamOffsets |-> 0]
    /\ tilemap_scrollx = 0
    /\ tilemap_scrolly = 0
    /\ m_flipscreen = FALSE
    /\ tilemap_flip = 0
    /\ maincpu_irq0 = "CLEAR_LINE"
    /\ mrdo_vblank = 0
    /\ mrdo_vblanks = 0
    /\ irq_acked = FALSE
    /\ DocastleAbsent

MrdoDid(name, data) ==
    /\ last_op' = Op(name, 0, data)
    /\ UNCHANGED <<machine_vars, ops, program_vars, raster_vars, adpcm_vars, bankp_vars, screen_vars, board, rom,
                   unmap_value, video_vars>>

\* the read is recorded with HL; mixed tells that HL was loaded since the
\* first read after the last clock write
NoteRead(v) ==
    [n |-> Min(prev_read.n + 1, MaxReads), val |-> v, hl |-> z80_hl,
     mixed |-> prev_read.mixed]

\* the operation records the latch value it found
MrdoReset ==
    /\ mrdo_machine_reset
    /\ running' = TRUE
    /\ m_clocked' = <<>>
    /\ prev_read' = NoRead
    /\ MrdoDid("machine_reset", m_pal_u001)
    /\ UNCHANGED <<z80_hl, tvram_vars>>

ProtectionW ==
    \E d \in ClockSample :
        /\ running
        /\ protection_w(d)
        /\ MrdoDid("protection_w", d)
        /\ UNCHANGED <<running, z80_hl, tvram_vars>>

ProtectionR ==
    /\ running
    /\ MrdoDid("protection_r", protection_r)
    /\ prev_read' = NoteRead(protection_r)
    /\ UNCHANGED <<running, m_pal_u001, z80_hl, m_clocked, tvram_vars>>

\* the program running on the main CPU loads HL
LoadHL ==
    \E a \in RomAddrs :
        /\ running
        /\ a # z80_hl
        /\ z80_hl' = a
        /\ MrdoDid("ld_hl", a)
        /\ prev_read' = [prev_read EXCEPT !.mixed = (prev_read.n > 0)]
        /\ UNCHANGED <<running, m_pal_u001, m_clocked, tvram_vars>>

MrdoNext ==
    \/ MrdoReset
    \/ ProtectionW
    \/ ProtectionR
    \/ LoadHL

MrdoSpec == MrdoInit /\ [][MrdoNext]_vars

-----------------------------------------------------------------------------
(* PalSpec: the truth table of the PAL.  A machine variant is built with   *)
(* one ROM image and reset; every one of the 256 bytes is clocked, and the  *)
(* protection address read, in any order.                                   *)

PalInit ==
    /\ MrdoInit
    /\ z80_hl = 0
    /\ rom = [a \in RomAddrs |-> IF a = 0 THEN 126 ELSE 0]
    /\ unmap_value = 0

PalClock ==
    \E d \in 0 .. 255 :
        /\ running
        /\ protection_w(d)
        /\ MrdoDid("protection_w", d)
        /\ UNCHANGED <<running, z80_hl, tvram_vars>>

PalNext ==
    \/ MrdoReset
    \/ PalClock
    \/ ProtectionR

PalSpec == PalInit /\ [][PalNext]_vars

-----------------------------------------------------------------------------
(* TvramSpec: the main CPU writes the two field RAMs and the two color     *)
(* RAMs, which is how the program clocks the PAL, and reads the protection  *)
(* address; the machine may be reset at any time.                           *)

TvDid(name, which, data) ==
    /\ last_op' = Op(name, which, data)
    /\ UNCHANGED <<machine_vars, ops, program_vars, raster_vars, adpcm_vars, bankp_vars, screen_vars, board, rom,
                   unmap_value, running, z80_hl, video_vars>>

FieldramW ==
    \E which \in {0, 1}, o \in RamOffsets, d \in TvData :
        /\ running
        /\ fieldram_w(which, o, d)
        /\ TvDid("fieldram_w", which, d)

ColorramW ==
    \E which \in {0, 1}, o \in RamOffsets, d \in TvData :
        /\ running
        /\ colorram_w(which, o, d)
        /\ TvDid("colorram_w", which, d)

TvramNext ==
    \/ MrdoReset
    \/ FieldramW
    \/ ColorramW
    \/ ProtectionR

TvramSpec == PalInit /\ [][TvramNext]_vars

-----------------------------------------------------------------------------
(* VideoSpec: the main CPU writes the first bank of the field RAM and of   *)
(* the color RAM, the sprite RAM, the scroll registers and the flip         *)
(* register, and reads the protection address; the screen signals the       *)
(* start and the end of vertical blanking; the machine may be reset.        *)

VideoDid(name, offset, data) ==
    /\ last_op' = Op(name, offset, data)
    /\ UNCHANGED <<machine_vars, ops, program_vars, raster_vars, adpcm_vars, bankp_vars, screen_vars, board, rom,
                   unmap_value, running, z80_hl>>

VideoFieldramW ==
    \E o \in RamOffsets, d \in VideoData :
        /\ running
        /\ fieldram_w(0, o, d)
        /\ UNCHANGED video_vars
        /\ VideoDid("fieldram_w", 0, d)

VideoColorramW ==
    \E o \in RamOffsets, d \in VideoData :
        /\ running
        /\ colorram_w(0, o, d)
        /\ UNCHANGED video_vars
        /\ VideoDid("colorram_w", 0, d)

SpriteramW ==
    \E o \in RamOffsets, d \in VideoData :
        /\ running
        /\ spriteram_w(o, d)
        /\ VideoDid("spriteram_w", o, d)

ScrollxW ==
    \E d \in VideoData :
        /\ running
        /\ scrollx_w(d)
        /\ VideoDid("scrollx_w", 0, d)

ScrollyW ==
    \E d \in VideoData :
        /\ running
        /\ scrolly_w(d)
        /\ VideoDid("scrolly_w", 0, d)

FlipscreenW ==
    \E d \in VideoData :
        /\ running
        /\ flipscreen_w(d)
        /\ VideoDid("flipscreen_w", 0, d)

VblankW ==
    \E state \in {0, 1} :
        /\ running
        /\ vblank_w(state)
        /\ VideoDid("vblank_w", 0, state)

VideoNext ==
    \/ MrdoReset
    \/ VideoFieldramW
    \/ VideoColorramW
    \/ ProtectionR
    \/ SpriteramW
    \/ ScrollxW
    \/ ScrollyW
    \/ FlipscreenW
    \/ VblankW

VideoSpec == PalInit /\ [][VideoNext]_vars

-----------------------------------------------------------------------------
(* IrqSpec: the screen of Mr. Do! calls vblank_w at each edge of vblank,    *)
(* with the new vblank state; the main CPU may acknowledge IRQ0 while the   *)
(* line is asserted, which calls irq_clear_w through irqack_cb, and it      *)
(* writes the video registers in between.  The calls of vblank_w are        *)
(* counted up to MaxVblanks.                                                *)

IrqDid(name, offset, data) ==
    /\ last_op' = Op(name, offset, data)
    /\ UNCHANGED <<machine_vars, ops, program_vars, raster_vars, adpcm_vars,
                   bankp_vars, board, rom, unmap_value, running, z80_hl>>

IrqVblankW ==
    /\ running
    /\ mrdo_vblanks < MaxVblanks
    /\ mrdo_vblank' = 1 - mrdo_vblank
    /\ vblank_w(mrdo_vblank')
    /\ mrdo_vblanks' = mrdo_vblanks + 1
    /\ irq_acked' = FALSE
    /\ IrqDid("vblank_w", 0, mrdo_vblank')

\* the Z80 takes the interrupt and calls irqack_cb with a true state
IrqAck ==
    /\ running
    /\ maincpu_irq0 = "ASSERT_LINE"
    /\ irq_clear_w(1)
    /\ irq_acked' = TRUE
    /\ IrqDid("irq_ack", 0, 1)
    /\ UNCHANGED <<m_spriteram, tilemap_scrollx, tilemap_scrolly,
                   m_flipscreen, tilemap_flip, pal_vars, tvram_vars,
                   mrdo_vblank, mrdo_vblanks>>

IrqNext ==
    \/ MrdoReset
    \/ IrqVblankW
    \/ IrqAck
    \/ SpriteramW
    \/ ScrollxW
    \/ ScrollyW
    \/ FlipscreenW

IrqSpec == PalInit /\ [][IrqNext]_vars

-----------------------------------------------------------------------------
(* Properties of the latch bridge *)

LastWas(name) == last_op.op = name

C2_ResumeImmediate ==
    [][ ( /\ cpu0_suspended
          /\ ops' = ops + 1
          /\ last_op'.op = "cpu2_latch_w"
          /\ last_op'.offset = 8 )
        => (~cpu0_suspended' /\ wake_cause' = "trigger") ]_vars

\* CPU A was suspended, time passed, and CPU B's offset-8 write woke it
C2_Witness ==
    /\ LastWas("cpu2_latch_w")
    /\ last_op.offset = 8
    /\ wake_cause = "trigger"
    /\ ~cpu0_suspended
    /\ m_buffer1[8] # 0

\* C3: a latch write at an offset 0..7 only stores its byte: it changes
\* neither CPU A's suspension nor anything else; CPU A becomes suspended
\* only by its own write at offset 8 (which always suspends it) and is
\* resumed by trigger only by CPU B's write at offset 8.
C3_OnlyOffset8 ==
    [][ /\ ( /\ ops' = ops + 1
             /\ last_op'.op = "cpu1_latch_w"
             /\ last_op'.offset < 8 )
           => /\ m_buffer1' = [m_buffer1 EXCEPT
                                  ![last_op'.offset] = last_op'.data]
              /\ UNCHANGED <<m_buffer0, m_prev_ma6, cpu1_nmi, irq_vars,
                             sched_vars>>
        /\ ( /\ ops' = ops + 1
             /\ last_op'.op = "cpu2_latch_w"
             /\ last_op'.offset < 8 )
           => /\ m_buffer0' = [m_buffer0 EXCEPT
                                  ![last_op'.offset] = last_op'.data]
              /\ UNCHANGED <<m_buffer1, m_prev_ma6, cpu1_nmi, irq_vars,
                             sched_vars>>
        /\ ( /\ ops' = ops + 1
             /\ last_op'.op = "cpu1_latch_w"
             /\ last_op'.offset = 8 )
           => cpu0_suspended'
        /\ (~cpu0_suspended /\ cpu0_suspended')
           => /\ ops' = ops + 1
              /\ last_op'.op = "cpu1_latch_w"
              /\ last_op'.offset = 8
        /\ (cpu0_suspended /\ ~cpu0_suspended' /\ wake_cause' = "trigger")
           => /\ ops' = ops + 1
              /\ last_op'.op = "cpu2_latch_w"
              /\ last_op'.offset = 8 ]_vars

\* CPU A has just written a non-zero byte at offset 7 and is still running
C3_Witness ==
    /\ LastWas("cpu1_latch_w")
    /\ last_op.offset = 7
    /\ last_op.data = 165
    /\ m_buffer1[7] = 165
    /\ ~cpu0_suspended

\* C4: once CPU A has written the 9 bytes of a message at offsets 0..8 and
\* until it writes again, every CPU B read at offset k returns byte k of
\* that message, whatever CPU B has written meanwhile.
C4_RoundTripAToB ==
    (LastWas("cpu2_latch_r") /\ a_msg.n = LatchSize)
        => last_op.data = a_msg.bytes[last_op.offset]

\* CPU B reads a byte of the message after it has written its whole reply
\* and so resumed CPU A
C4_Witness ==
    /\ LastWas("cpu2_latch_r")
    /\ a_msg.n = LatchSize
    /\ b_msg.n = LatchSize
    /\ wake_cause = "trigger"
    /\ ~cpu0_suspended
    /\ last_op.data = a_msg.bytes[last_op.offset]

-----------------------------------------------------------------------------
(* Properties of the protection *)

Bit(d, n) == (d \div (2 ^ n)) % 2 = 1
Val(b) == IF b THEN 1 ELSE 0

\* the documented equations, with i2..i9 = bits 7,6,5,4,3,(2),1,0
Eq_t1(d) == Bit(d, 7) /\ ~Bit(d, 6) /\ Bit(d, 5) /\ ~Bit(d, 4) /\ ~Bit(d, 3)
            /\ ~Bit(d, 1) /\ Bit(d, 0)
Eq_t2(d) == ~Bit(d, 7) /\ ~Bit(d, 6) /\ Bit(d, 5) /\ Bit(d, 4) /\ ~Bit(d, 3)
            /\ Bit(d, 1) /\ ~Bit(d, 0)
Eq_t3(d) == Bit(d, 7) /\ Bit(d, 6) /\ ~Bit(d, 5) /\ ~Bit(d, 4) /\ Bit(d, 3)
            /\ ~Bit(d, 1) /\ Bit(d, 0)
Eq_t4(d) == ~Bit(d, 7) /\ Bit(d, 6) /\ Bit(d, 5) /\ ~Bit(d, 4) /\ Bit(d, 3)
            /\ Bit(d, 1) /\ Bit(d, 0)
Eq_out(d) ==
    255 - ( 2 * Val(Eq_t1(d)) + 4 * Val(Eq_t1(d) \/ Eq_t2(d))
            + 8 * Val(Eq_t1(d) \/ Eq_t3(d)) + 16 * Val(Eq_t1(d))
            + 32 * Val(Eq_t1(d) \/ Eq_t3(d)) + 64 * Val(Eq_t3(d) \/ Eq_t4(d)) )

EquationVariant ==
    board.m_pal_enabled /\ ~board.m_bypass_pal /\ board.equations

FlipBit2(d) == IF Bit(d, 2) THEN d - 4 ELSE d + 4

\* C5: in the equation-driven variant a read that follows the clocking of
\* byte d returns the complement of the documented sum of products of d.
C5_TruthTable ==
    (EquationVariant /\ LastWas("protection_r") /\ m_clocked # <<>>)
        => last_op.data = Eq_out(m_clocked[1])

\* 0xA1 was clocked (term t1) and the read returned 0xC1
C5_Witness ==
    /\ EquationVariant
    /\ LastWas("protection_r")
    /\ m_clocked = <<161>>
    /\ last_op.data = 193

\* C6: the latch left by clocking d is the one clocking d XOR 0x04 leaves.
C6_Bit2Unused ==
    (EquationVariant /\ m_clocked # <<>>)
        => m_pal_u001 = pal16r6(FlipBit2(m_clocked[1]))

\* 0xA5 was clocked: bit 2 is set and the term t1 still holds
C6_Witness ==
    /\ EquationVariant
    /\ m_clocked = <<165>>
    /\ m_pal_u001 = 193

\* C7 as stated: with protection disabled and the bypass flag set, a read
\* of the protection address returns the ROM byte at HL.
C7_DisabledReadsRom ==
    (LastWas("protection_r") /\ ~board.m_pal_enabled /\ board.m_bypass_pal)
        => last_op.data = rom[z80_hl]

\* C7 as amended: with protection disabled a read returns the value of an
\* unmapped read, whatever the bypass flag, HL and the latch hold; the ROM
\* byte at HL is what a read returns with protection enabled and the bypass
\* flag set.
C7_DisabledReadsUnmapped ==
    /\ (LastWas("protection_r") /\ ~board.m_pal_enabled)
           => last_op.data = unmap_value
    /\ (LastWas("protection_r") /\ board.m_pal_enabled /\ board.m_bypass_pal)
           => last_op.data = rom[z80_hl]

\* the protection-disabled board read the unmapped value, which is neither
\* the ROM byte at HL nor the latch
C7_Witness ==
    /\ LastWas("protection_r")
    /\ ~board.m_pal_enabled
    /\ board.m_bypass_pal
    /\ last_op.data = unmap_value
    /\ unmap_value # rom[z80_hl]
    /\ unmap_value # m_pal_u001

-----------------------------------------------------------------------------
(* Properties of the raster interrupt and of reset *)

\* indices (from 0) of the samples that are 1 after a 0, LOW before the first
RisingEdges(s) ==
    { i \in 0 .. (Len(s) - 1) :
        s[i + 1] = 1 /\ (IF i = 0 THEN TRUE ELSE s[i] = 0) }

\* C8: the samples at which the interrupt was raised since reset are exactly
\* the samples that are 1 with the previous sample (LOW at first) 0; for
\* the samples 0,0,1,1,0,1 these are the samples 2 and 5.
C8_RasterEdge ==
    /\ fired = RisingEdges(samples)
    /\ (samples = <<0, 0, 1, 1, 0, 1>> => fired = {2, 5})

\* the samples 0,0,1,1,0,1 were taken
C8_Witness ==
    /\ samples = <<0, 0, 1, 1, 0, 1>>
    /\ fired = {2, 5}
    /\ irq0_raised = 2

\* C9: right after machine reset both buffers hold 0 in all 9 bytes and the
\* edge detector is LOW.
C9_ResetClears ==
    LastWas("machine_reset")
        => /\ \A k \in Offsets : m_buffer0[k] = 0 /\ m_buffer1[k] = 0
           /\ m_prev_ma6 = FALSE

\* the machine was reset with a byte in CPU A's outbound buffer and the
\* edge detector HIGH
C9_Witness ==
    /\ LastWas("machine_reset")
    /\ last_op.data = 6
    /\ m_buffer1 = ZeroBuffer
    /\ ~m_prev_ma6

\* C10: right after machine reset the latch holds 0xFF, and in the
\* equation-driven variant a read made before any clock write returns 0xFF.
C10_ResetHigh ==
    /\ LastWas("machine_reset") => m_pal_u001 = 255
    /\ (EquationVariant /\ LastWas("protection_r") /\ m_clocked = <<>>)
           => last_op.data = 255

\* the machine was reset while the latch held 0xC1
C10_Witness ==
    /\ LastWas("machine_reset")
    /\ last_op.data = 193
    /\ m_pal_u001 = 255

-----------------------------------------------------------------------------
(* Properties of the protection reads and of the PAL clock *)

BypassVariant == board.m_pal_enabled /\ board.m_bypass_pal

\* C11 as stated: a protection read made after another one, with no clock
\* write and no reset between the two, returns the value the earlier read
\* returned, in every variant and whatever the CPU did between them.
C11_ReadsAgree ==
    [][ (last_op'.op = "protection_r" /\ prev_read.n > 0)
        => last_op'.data = prev_read.val ]_vars

\* C11 as amended: the two reads return the same value in the
\* equation-driven and the disabled variants whatever the CPU did between
\* them, and in the bypass variant when HL holds the same address at both.
C11_ReadsAgreeSameHL ==
    [][ ( /\ last_op'.op = "protection_r"
          /\ prev_read.n > 0
          /\ (BypassVariant => z80_hl = prev_read.hl) )
        => last_op'.data = prev_read.val ]_vars

\* the equation-driven variant read 0xC1 twice after clocking 0xA1, HL
\* having been loaded between the two reads
C11_Witness ==
    /\ EquationVariant
    /\ LastWas("protection_r")
    /\ prev_read.n >= 2
    /\ prev_read.mixed
    /\ m_clocked = <<161>>
    /\ last_op.data = 193

\* C12: a latch read by either CPU at any offset returns the byte of that
\* CPU's inbound buffer at the offset (m_buffer0 for CPU A, m_buffer1 for
\* CPU B) and leaves the buffers, the edge detector, the interrupt lines
\* and the suspension of CPU A as they were, at offset 8 as at the others.
C12_ReadPure ==
    [][ /\ (ops' = ops + 1 /\ last_op'.op = "cpu1_latch_r")
           => /\ last_op'.data = m_buffer0[last_op'.offset]
              /\ UNCHANGED machine_vars
        /\ (ops' = ops + 1 /\ last_op'.op = "cpu2_latch_r")
           => /\ last_op'.data = m_buffer1[last_op'.offset]
              /\ UNCHANGED machine_vars ]_vars

\* CPU B read at offset 8 the byte CPU A's suspending write stored there,
\* and CPU A is still suspended
C12_Witness ==
    /\ LastWas("cpu2_latch_r")
    /\ last_op.offset = 8
    /\ last_op.data = 165
    /\ m_buffer1[8] = 165
    /\ cpu0_suspended

RamWrite(op) == op \in {"fieldram_w", "colorram_w"}

\* C13: in the equation-driven variant every clock write leaves in the
\* latch the equations' value for the byte of that write, whatever the
\* latch held before, hence whatever bytes were clocked earlier.
C13_LatchOfLastByte ==
    [][ (EquationVariant /\ RamWrite(last_op'.op))
        => m_pal_u001' = Eq_out(last_op'.data) ]_vars

\* 0xA1 was written to field RAM and then 0x32 to color RAM: the latch
\* holds 0xFB, the value for 0x32
C13_Witness ==
    /\ EquationVariant
    /\ LastWas("colorram_w")
    /\ last_op.data = 50
    /\ m_fieldram[0][0] = 161
    /\ m_colorram[0][0] = 50
    /\ m_pal_u001 = 251

\* C14: every write to a field RAM or a color RAM calls protection_w with
\* the byte written, also when the byte equals the one already stored.
C14_RamWriteClocks ==
    [][ RamWrite(last_op'.op)
        => /\ m_clocked' = <<last_op'.data>>
           /\ prev_read' = NoRead ]_vars

\* 0x00 was written to a field RAM in which every byte is 0x00 and no tile
\* has been marked dirty: the clock was called with 0x00
C14_Witness ==
    /\ running
    /\ LastWas("fieldram_w")
    /\ last_op.data = 0
    /\ m_fieldram = ZeroRam
    /\ tile_dirty = {}
    /\ m_clocked = <<0>>

\* C15 as stated: no variant with protection enabled and no equations
\* reaches the running state.
C15_BuildRejected ==
    running => ~(board.m_pal_enabled /\ ~board.equations)

\* C15 as amended: a variant with protection enabled and no equations is
\* built with the bypass flag set and runs; its latch keeps 0xFF whatever is
\* clocked and its reads return the ROM byte at HL.
C15_BypassRuns ==
    (running /\ board.m_pal_enabled /\ ~board.equations)
        => /\ board.m_bypass_pal
           /\ m_pal_u001 = 255
           /\ LastWas("protection_r") => last_op.data = rom[z80_hl]

\* the variant without equations runs, was clocked with 0xA1 and was read
C15_Witness ==
    /\ running
    /\ board.m_pal_enabled
    /\ ~board.equations
    /\ m_clocked = <<161>>
    /\ LastWas("protection_r")

-----------------------------------------------------------------------------
(* Properties of the buffers' writers and of the suspension *)

\* C16: a CPU A write at offset k changes byte k of m_buffer1 and no byte of
\* m_buffer0; a CPU B write at offset k changes byte k of m_buffer0 and no
\* byte of m_buffer1; this holds at every offset, 8 included.
C16_SingleWriter ==
    [][ /\ (ops' = ops + 1 /\ last_op'.op = "cpu1_latch_w")
           => /\ m_buffer1' = [m_buffer1 EXCEPT
                                  ![last_op'.offset] = last_op'.data]
              /\ m_buffer0' = m_buffer0
        /\ (ops' = ops + 1 /\ last_op'.op = "cpu2_latch_w")
           => /\ m_buffer0' = [m_buffer0 EXCEPT
                                  ![last_op'.offset] = last_op'.data]
              /\ m_buffer1' = m_buffer1 ]_vars

\* CPU B wrote a byte at offset 0 and CPU A then wrote one at offset 8:
\* each buffer holds its writer's byte only
C16_Witness ==
    /\ LastWas("cpu1_latch_w")
    /\ last_op.offset = 8
    /\ last_op.data = 165
    /\ m_buffer1[8] = 165
    /\ m_buffer1[0] = 0
    /\ m_buffer0[0] = 165
    /\ m_buffer0[8] = 0

\* C17: CPU B is never suspended; CPU A becomes suspended only by its own
\* latch write at offset 8; a latch read, the NMI-trigger write and the
\* horizontal-sync callback leave CPU A's suspension as it was.
C17_OneBlockingPoint ==
    [][ /\ ~cpu1_suspended'
        /\ (~cpu0_suspended /\ cpu0_suspended')
           => /\ ops' = ops + 1
              /\ last_op'.op = "cpu1_latch_w"
              /\ last_op'.offset = 8
        /\ ( /\ ops' = ops + 1
             /\ last_op'.op \in {"cpu1_latch_r", "cpu2_latch_r",
                                  "nmi_trigger_w", "tint"} )
           => cpu0_suspended' = cpu0_suspended ]_vars

\* the interrupt was raised at a sync pulse, CPU A triggered the NMI and
\* then suspended itself by its write at offset 8; CPU B runs
C17_Witness ==
    /\ LastWas("cpu1_latch_w")
    /\ last_op.offset = 8
    /\ cpu0_suspended
    /\ ~cpu1_suspended
    /\ cpu1_nmi
    /\ irq0_raised = 1

\* C18: when CPU A runs after CPU B's offset-8 write woke it, CPU B having
\* written the 9 bytes of its reply in ascending order, a CPU A read at
\* offset k returns byte k of that reply, byte 8 included.
C18_ReplyStoredBeforeResume ==
    (wake_cause = "trigger" /\ LastWas("cpu1_latch_r") /\ b_msg.n = LatchSize)
        => last_op.data = b_msg.bytes[last_op.offset]

\* woken by the trigger, CPU A read at offset 8 the last byte of the reply
C18_Witness ==
    /\ wake_cause = "trigger"
    /\ LastWas("cpu1_latch_r")
    /\ last_op.offset = 8
    /\ b_msg.n = LatchSize
    /\ last_op.data = b_msg.bytes[8]
    /\ last_op.data >= 128

-----------------------------------------------------------------------------
(* Properties of the horizontal-sync callback *)

\* C19 as stated: after every call of the callback the stored previous bit
\* equals the MA6 bit at that call.
C19_PrevAfterEveryCall ==
    LastWas("tint") => (m_prev_ma6 = (last_op.data = 1))

\* C19 as amended: after every call of the callback made with a non-zero
\* sync state the stored previous bit equals the MA6 bit at that call,
\* whether or not the interrupt was raised.
C19_PrevAfterSyncPulse ==
    (LastWas("tint") /\ last_op.offset # 0)
        => (m_prev_ma6 = (last_op.data = 1))

\* MA6 was 1 at a sync pulse and 0 at the next: the previous bit is LOW
\* again and no second interrupt was raised
C19_Witness ==
    /\ LastWas("tint")
    /\ last_op.offset = 1
    /\ last_op.data = 0
    /\ samples = <<1, 0>>
    /\ ~m_prev_ma6
    /\ irq0_raised = 1

\* C20: a call of the callback with sync state 0 takes no sample, leaves
\* the previous bit and the interrupt line as they were and raises nothing;
\* so a sync pulse at which MA6 is 1, the sample of the previous pulse
\* being 0, raises the interrupt once, whatever calls lie between them.
C20_IdleCallIgnored ==
    [][ /\ (ops' = ops + 1 /\ last_op'.op = "tint" /\ last_op'.offset = 0)
           => UNCHANGED <<m_prev_ma6, cpu1_irq0, irq0_raised, samples, fired>>
        /\ ( /\ ops' = ops + 1
             /\ last_op'.op = "tint"
             /\ last_op'.offset # 0
             /\ last_op'.data = 1
             /\ samples # <<>>
             /\ samples[Len(samples)] = 0 )
           => irq0_raised' = irq0_raised + 1 ]_vars

\* MA6 was 0 at a sync pulse and 1 at a call with sync state 0: nothing
\* was sampled and no interrupt was raised
C20_Witness ==
    /\ LastWas("tint")
    /\ last_op.offset = 0
    /\ last_op.data = 1
    /\ samples = <<0>>
    /\ ~m_prev_ma6
    /\ irq0_raised = 0

-----------------------------------------------------------------------------
(* Properties of the interrupt lines of the slave CPU *)

\* C21 as stated: the call of the callback that raises the interrupt leaves
\* the IRQ0 line clear when it returns.
C21_PulseAutoClears ==
    [][ (ops' = ops + 1 /\ last_op'.op = "tint" /\ irq0_raised' # irq0_raised)
        => cpu1_irq0' = "CLEAR_LINE" ]_vars

\* C21 as amended: the call of the callback that raises the interrupt
\* leaves the IRQ0 line held, and no call of the callback releases a held
\* line: it stays asserted until the CPU acknowledges the interrupt.
C21_LineHeld ==
    [][ (ops' = ops + 1 /\ last_op'.op = "tint")
        => /\ (irq0_raised' # irq0_raised) => cpu1_irq0' = "HOLD_LINE"
           /\ (cpu1_irq0 = "HOLD_LINE") => cpu1_irq0' = "HOLD_LINE" ]_vars

\* the interrupt was raised at a sync pulse and the line is still held
\* two sync pulses later, MA6 being 0 again
C21_Witness ==
    /\ LastWas("tint")
    /\ samples = <<1, 1, 0>>
    /\ irq0_raised = 1
    /\ cpu1_irq0 = "HOLD_LINE"

\* C22: a CPU A write to the NMI-trigger address latches an NMI for CPU B
\* whatever byte is written, and changes neither buffer, nor the edge
\* detector, nor the IRQ0 line, nor the suspension of CPU A.
C22_NmiTrigger ==
    [][ (ops' = ops + 1 /\ last_op'.op = "nmi_trigger_w")
        => /\ cpu1_nmi'
           /\ UNCHANGED <<m_buffer0, m_buffer1, m_prev_ma6, irq_vars,
                          sched_vars>> ]_vars

\* the byte 0x00 was written to the NMI-trigger address after CPU A had
\* stored a byte in its outbound buffer: the NMI is latched, CPU A runs
C22_Witness ==
    /\ LastWas("nmi_trigger_w")
    /\ last_op.data = 0
    /\ cpu1_nmi
    /\ m_buffer1[0] = 165
    /\ ~cpu0_suspended

-----------------------------------------------------------------------------
(* Properties of the protection latch over the whole memory map *)

\* C23: the latch changes only in a step of machine reset or of a write to
\* a field RAM or a color RAM; a protection read, a sprite RAM write, a
\* scroll write, a flip-screen write and a vblank event leave it as it was.
C23_LatchFrame ==
    [][ /\ (m_pal_u001' # m_pal_u001)
           => (last_op'.op = "machine_reset" \/ RamWrite(last_op'.op))
        /\ (last_op'.op \in {"protection_r", "spriteram_w", "scrollx_w",
                              "scrolly_w", "flipscreen_w", "vblank_w"})
           => m_pal_u001' = m_pal_u001 ]_vars

\* the latch of the equation-driven variant holds 0xC1 at a vblank start,
\* after writes to the sprite RAM, the scroll registers and the flip
\* register and a protection read
C23_Witness ==
    /\ EquationVariant
    /\ m_pal_u001 = 193
    /\ LastWas("vblank_w")
    /\ maincpu_irq0 = "ASSERT_LINE"
    /\ m_spriteram[0] = 161
    /\ tilemap_scrollx = 161
    /\ tilemap_scrolly = 95
    /\ m_flipscreen
    /\ prev_read.n > 0

-----------------------------------------------------------------------------
(* Properties of the handshake's interleavings *)

\* C24: the bytes CPU B reads while it services one NMI all belong to one
\* CPU A message.
C24_NoTornRead == Cardinality(b_seen) <= 1

\* C25: a CPU B write at offset 8 made while CPU A runs leaves the
\* scheduling state as it was, and every CPU A write at offset 8 leaves
\* CPU A suspended with its whole wait ahead, whatever CPU B wrote before.
C25_ResumeNotRemembered ==
    [][ /\ ( /\ ~cpu0_suspended
             /\ ops' = ops + 1
             /\ last_op'.op = "cpu2_latch_w"
             /\ last_op'.offset = 8 )
           => UNCHANGED sched_vars
        /\ ( /\ ops' = ops + 1
             /\ last_op'.op = "cpu1_latch_w"
             /\ last_op'.offset = 8 )
           => /\ cpu0_suspended'
              /\ spin_arg' = SpinTimeout
              /\ spin_elapsed' = 0 ]_vars

\* CPU B wrote its offset 8 while CPU A was running; CPU A's write at
\* offset 8, the next operation, suspended it all the same
C25_Witness ==
    /\ LastWas("cpu1_latch_w")
    /\ last_op.offset = 8
    /\ cpu0_suspended
    /\ spin_elapsed = 0
    /\ m_buffer0[8] = 165
    /\ m_buffer1[8] = 0
    /\ ops = 2

-----------------------------------------------------------------------------
(* Properties of the latch values of each variant *)

LatchValues == {255, 193, 251, 151, 191}

\* the latch value listed for each byte: 0xA1/0xA5, 0x32/0x36, 0xC9/0xCD,
\* 0x6B/0x6F and the other 248 bytes
ListedLatch(d) ==
    CASE d \in {161, 165} -> 193
      [] d \in {50, 54}   -> 251
      [] d \in {201, 205} -> 151
      [] d \in {107, 111} -> 191
      [] OTHER            -> 255

\* C26: in the equation-driven variant, once reset, the latch is one of
\* 0xFF, 0xC1, 0xFB, 0x97, 0xBF; after a clock write it is the value listed
\* for the byte written, 0xFF for each of the 248 bytes that satisfy no term.
C26_FiveValues ==
    (EquationVariant /\ running)
        => /\ m_pal_u001 \in LatchValues
           /\ m_clocked # <<>> => m_pal_u001 = ListedLatch(m_clocked[1])

\* 0x6F was clocked: the fourth term alone holds and the latch is 0xBF
C26_Witness ==
    /\ EquationVariant
    /\ running
    /\ m_clocked = <<111>>
    /\ m_pal_u001 = 191

\* C27: with protection enabled and the bypass flag set every read of the
\* protection address returns the ROM byte at HL, whatever the latch
\* holds; a read that differs from the read before it was made with another
\* HL.
C27_BypassReadsRom ==
    [][ (BypassVariant /\ last_op'.op = "protection_r")
        => /\ last_op'.data = rom[z80_hl]
           /\ (prev_read.n > 0 /\ last_op'.data # prev_read.val)
                  => z80_hl # prev_read.hl ]_vars

\* the bypass variant read 0x7E from ROM after HL was loaded, the read
\* before having returned another byte; the latch holds 0xFF
C27_Witness ==
    /\ BypassVariant
    /\ LastWas("protection_r")
    /\ last_op.data = 126
    /\ rom[z80_hl] = 126
    /\ m_pal_u001 = 255
    /\ prev_read.n >= 2
    /\ prev_read.mixed
    /\ m_clocked = <<161>>

\* C28: in the variants without equations, once reset, the latch holds 0xFF
\* whatever bytes are written to the field RAMs and the color RAMs.
C28_LatchStaysHigh ==
    (running /\ ~board.equations) => m_pal_u001 = 255

\* 0xA1 was written to a color RAM of the protection-disabled board
C28_Witness ==
    /\ running
    /\ board.name = "mrlo"
    /\ LastWas("colorram_w")
    /\ last_op.data = 161
    /\ m_colorram[1][0] = 161
    /\ m_pal_u001 = 255

-----------------------------------------------------------------------------
(* Properties of the ADPCM playback *)

\* C29: no call of adpcm_int fetches a sample byte at a position at or
\* beyond the size of the region; a call made with the position at the
\* size fetches and writes nothing, sets the idle flag and asserts the
\* MSM5205's reset.
C29_NoFetchPastEnd ==
    [][ (adpcm_calls' = adpcm_calls + 1)
        => /\ adpcm_fetch' < AdpcmBytes
           /\ m_adpcm_pos' <= AdpcmBytes
           /\ (m_adpcm_pos >= AdpcmBytes)
                  => /\ m_adpcm_idle' = 1
                     /\ msm_reset' = 1
                     /\ UNCHANGED <<m_adpcm_pos, adpcm_fetch, msm_count>> ]_vars

\* playback started at the last block reached the end of the region: the
\* last fetch was at the last byte, the unit is idle and the reset asserted
C29_Witness ==
    /\ LastWas("adpcm_int")
    /\ adpcm_start = 127 * AdpcmBlock
    /\ m_adpcm_pos = AdpcmBytes
    /\ adpcm_fetch = AdpcmBytes - 1
    /\ m_adpcm_idle = 1
    /\ msm_reset = 1

\* nibble i (from 1) of the region read from position p, high nibbles first
Nibble(p, i) ==
    LET b == AdpcmRom(p + ((i - 1) \div 2))
    IN IF i % 2 = 1 THEN b \div 16 ELSE b % 16

PlayLen == 2 * (AdpcmBytes - adpcm_start)

\* C30: after playback was started at position p, call i of adpcm_int
\* writes nibble i of the region from p, for every i up to twice the number
\* of bytes from p to the end; the position has then advanced by one for
\* every two calls; the calls after these write nothing and the unit is
\* idle.
C30_NibblesInOrder ==
    (adpcm_start >= 0 /\ LastWas("adpcm_int"))
        => IF adpcm_calls <= PlayLen
           THEN /\ msm_count = adpcm_calls
                /\ msm_data = Nibble(adpcm_start, adpcm_calls)
                /\ m_adpcm_pos = adpcm_start + ((adpcm_calls + 1) \div 2)
           ELSE /\ msm_count = PlayLen
                /\ m_adpcm_idle = 1

-----------------------------------------------------------------------------
(* Properties of the Bank Panic vblank NMI *)

\* C31: a call of vblank_interrupt pulses the NMI exactly when it is the
\* start of vblank (state = 1) and bit 4 of the most recent video-control
\* write is set; the video reset counts as a write of 0, so it leaves the
\* NMI disabled; the end of vblank (state = 0) never pulses the NMI.
C31_NmiIffBit4 ==
    [][ /\ (vblank_calls' = vblank_calls + 1)
           => /\ (nmi_pulses' = nmi_pulses + 1)
                    <=> (bankp_vblank' = 1 /\ BIT(bankp_ctrl, 4) = 1)
              /\ (nmi_pulses' # nmi_pulses + 1)
                    => (nmi_pulses' = nmi_pulses /\ bankp_nmi' = bankp_nmi)
              /\ (nmi_pulses' = nmi_pulses + 1) => bankp_nmi'
        /\ (last_op'.op = "video_reset")
           => (bankp_ctrl' = 0 /\ ~m_nmi_mask') ]_vars

\* a vblank start after a video-control write with bit 4 set pulsed the NMI,
\* although an earlier vblank start, before that write, had not
C31_Witness ==
    /\ LastWas("vblank_interrupt")
    /\ last_op.data = 1
    /\ BIT(bankp_ctrl, 4) = 1
    /\ vblank_calls = 3
    /\ nmi_pulses = 1
    /\ bankp_nmi

-----------------------------------------------------------------------------
(* Properties of the Mr. Do! vblank interrupt *)

\* C32: the main CPU's IRQ0 line is asserted exactly while the screen is in
\* vblank and the CPU has not acknowledged the interrupt since that vblank
\* began: it is asserted at the start of vblank, cleared at the end of
\* vblank or at the acknowledge, never asserted outside vblank, and not
\* asserted again in the same vblank after an acknowledge.
C32_Irq0DuringVblank ==
    (maincpu_irq0 = "ASSERT_LINE") <=> (mrdo_vblank = 1 /\ ~irq_acked)

\* in the second vblank the CPU acknowledged the interrupt and then wrote a
\* scroll register; the screen is still in vblank and the line is clear
C32_Witness ==
    /\ LastWas("scrollx_w")
    /\ mrdo_vblank = 1
    /\ mrdo_vblanks = 3
    /\ irq_acked
    /\ maincpu_irq0 = "CLEAR_LINE"

====
